---- MODULE Spec2Model ----
(***************************************************************************)
(* Model of the auth routes of main.py: signup, login, forgot-password and *)
(* reset-password, run by request workers against two MongoDB collections  *)
(* ("user" and "passwordresettoken").  Every database call is one atomic   *)
(* step; a handler that makes several database calls is several steps, so  *)
(* handlers of different workers interleave between their database calls.  *)
(* A collection is the sequence of its documents in insertion order, the   *)
(* order find_one and update_one take the first match in; a token          *)
(* document's _id is its position.  The clock unit is one hour.  No        *)
(* handler reads the created_at / updated_at stamps of the documents: a    *)
(* specification chooses in its initial state whether they are kept        *)
(* (stamped) or left at 0.                                                 *)
(***************************************************************************)
EXTENDS Integers, Sequences, FiniteSets, TLC

\* ---- bounds of the model ----
\* user documents, token documents, hours on the clock, blog posts
MaxUsers == 2
MaxTokens == 2
MaxTime == 2
MaxPosts == 3

\* ---- program constants ----
\* timedelta(hours=1)
TOKEN_TTL == 1
APP_SALT == "static_salt_change_me"
\* the [:60] of the base slug
SLUG_MAX == 60

\* ---- input domains ----
Procs == {"w1", "w2"}
Emails == {"a@x.com", "b@x.com"}
Passwords == {"p1", "p2"}
\* the (password, name) a signup request carries; name is Optional[str] = None
SignupPayloads == {[password |-> "p1", name |-> "None"],
                   [password |-> "p2", name |-> "Ann"]}
\* every token string uuid4 can issue within the bounds, and one it never issues
TokenStrings == 1..(MaxTokens + 1)
\* Titles of blog posts, as sequences of characters.  They contain capitals,
\* outer and inner spaces, a slash, a title that reads like another's second
\* slug, and two titles longer than SLUG_MAX that differ in their last
\* character only.
LongTitle(c) == [k \in 1..(SLUG_MAX + 1) |-> IF k > SLUG_MAX THEN c ELSE "x"]
Titles == {<<"a">>, <<"A", " ">>, <<"a", "-", "2">>, <<"a", " ", "b">>,
           <<"a", "/", "b">>, LongTitle("b"), LongTitle("c")}

VARIABLES users, tokens, posts, now, stamped, pc, call, rec, last

vars == <<users, tokens, posts, now, stamped, pc, call, rec, last>>

\* ---- helpers ----

\* datetime.utcnow() as written to created_at / updated_at
Stamp == IF stamped THEN now ELSE 0

\* faulty variant: the digest of the salt alone
hash_password_nopw(pw) == <<"sha256", APP_SALT>>

\* sha256((salt + pw).encode()).hexdigest(): the digest of the concatenation
hash_password(pw) == <<"sha256", APP_SALT \o pw>>

Min(S) == CHOOSE x \in S : \A y \in S : x <= y

\* users.find_one({"email": email}): position of the first match, 0 for None
find_one_user(us, email) ==
    LET hits == {i \in 1..Len(us) : us[i].email = email}
    IN  IF hits = {} THEN 0 ELSE Min(hits)

\* faulty variant: the lookup without the used filter
find_one_token_any(ts, tok) ==
    LET hits == {i \in 1..Len(ts) : ts[i].token = tok}
    IN  IF hits = {} THEN 0 ELSE CHOOSE i \in hits : \A j \in hits : i <= j

\* db["passwordresettoken"].find_one({"token": tok, "used": False})
find_one_token(ts, tok) ==
    LET hits == {i \in 1..Len(ts) : ts[i].token = tok /\ ts[i].used = FALSE}
    IN  IF hits = {} THEN 0 ELSE Min(hits)

\* faulty variant: the comparison the wrong way round
is_expired_reversed(r, t) == r.expires_at > t

\* rec.get("expires_at") < datetime.utcnow()
is_expired(r, t) == r.expires_at < t

\* db["user"].update_one({"email": email}, {"$set": {hashed_password, updated_at}})
\* faulty variant: the write restamps created_at as well
update_one_user_restamp(us, email, hp, t) ==
    LET i == find_one_user(us, email)
    IN  IF i = 0 THEN us
        ELSE [us EXCEPT ![i].hashed_password = hp,
                        ![i].updated_at = t,
                        ![i].created_at = t]

\* faulty variant: the write is not filtered by the email
update_one_user_all(us, email, hp, t) ==
    [i \in 1..Len(us) |-> [us[i] EXCEPT !.hashed_password = hp, !.updated_at = t]]

update_one_user(us, email, hp, t) ==
    LET i == find_one_user(us, email)
    IN  IF i = 0 THEN us
        ELSE [us EXCEPT ![i].hashed_password = hp, ![i].updated_at = t]

\* faulty variant: the update that forgets the used flag
update_one_token_noflag(ts, id, t) == [ts EXCEPT ![id].updated_at = t]

\* db["passwordresettoken"].update_one({"_id": id}, {"$set": {used: True, updated_at}})
\* faulty variant: the write marks every token of the same user
update_one_token_all(ts, id, t) ==
    [i \in 1..Len(ts) |->
        IF ts[i].user_email = ts[id].user_email
        THEN [ts[i] EXCEPT !.used = TRUE, !.updated_at = t]
        ELSE ts[i]]

update_one_token(ts, id, t) ==
    [ts EXCEPT ![id].used = TRUE, ![id].updated_at = t]

\* uuid.uuid4().hex: a value no earlier call produced
\* faulty variant: the generator repeats itself
\* ---- str methods of the slug (main.py:185, 190) ----
lower_char(c) == CASE c = "A" -> "a" [] c = "B" -> "b" [] c = "X" -> "x" [] OTHER -> c
lower(s) == [k \in 1..Len(s) |-> lower_char(s[k])]

Whitespace == {" ", "\t", "\n"}

RECURSIVE lstrip(_)
lstrip(s) == IF s # <<>> /\ Head(s) \in Whitespace THEN lstrip(Tail(s)) ELSE s

RECURSIVE rstrip(_)
rstrip(s) ==
    IF s # <<>> /\ s[Len(s)] \in Whitespace
    THEN rstrip(SubSeq(s, 1, Len(s) - 1))
    ELSE s

strip(s) == rstrip(lstrip(s))

replace(s, old, new) == [k \in 1..Len(s) |-> IF s[k] = old THEN new ELSE s[k]]

\* s[:n]
Prefix(s, n) == SubSeq(s, 1, IF Len(s) < n THEN Len(s) ELSE n)

base_slug_of(title) ==
    Prefix(replace(replace(strip(lower(title)), " ", "-"), "/", "-"), SLUG_MAX)

\* str(i) of an f-string, i >= 0
DigitChars == <<"0", "1", "2", "3", "4", "5", "6", "7", "8", "9">>

RECURSIVE str(_)
str(i) ==
    IF i < 10 THEN <<DigitChars[i + 1]>>
    ELSE str(i \div 10) \o <<DigitChars[(i % 10) + 1]>>

\* f"{base_slug}-{i}"
Suffixed(base, i) == base \o <<"-">> \o str(i)

\* db["blogpost"].find_one({"slug": slug}): 0 stands for None
find_one_post(ps, slug) ==
    LET hits == {i \in 1..Len(ps) : ps[i].slug = slug}
    IN  IF hits = {} THEN 0 ELSE Min(hits)

uuid4_fixed(ts) == 1

uuid4(ts) == Len(ts) + 1

\* ---- requests and responses ----
NoCall == [op |-> "none"]
NoResp == [status |-> 0, body |-> [ok |-> FALSE]]

HTTPException(code, detail) == [status |-> code, body |-> [detail |-> detail]]
Ok(body) == [status |-> 200, body |-> body]

\* what a request is about: the token of a reset, the slug of a blog post, the
\* email of the others
Key(c) == IF c.op = "reset" THEN c.token
          ELSE IF c.op = "blog" THEN c.slug
          ELSE c.email

\* the response worker p gives to request c; the request is over
Return(p, c, r) ==
    /\ last' = [op |-> c.op, key |-> Key(c), resp |-> r]
    /\ pc' = [pc EXCEPT ![p] = "idle"]
    /\ call' = [call EXCEPT ![p] = NoCall]
    /\ rec' = [rec EXCEPT ![p] = 0]

\* worker p goes on to the next database call of request c
Goto(p, c, r, label) ==
    /\ pc' = [pc EXCEPT ![p] = label]
    /\ call' = [call EXCEPT ![p] = c]
    /\ rec' = [rec EXCEPT ![p] = r]
    /\ last' = last

Idle(p) == pc[p] = "idle"
Inserting(label) == Cardinality({q \in Procs : pc[q] = label})

Init ==
    /\ users = <<>>
    /\ tokens = <<>>
    /\ posts = <<>>
    /\ now = 0
    /\ stamped = FALSE
    /\ pc = [p \in Procs |-> "idle"]
    /\ call = [p \in Procs |-> NoCall]
    /\ rec = [p \in Procs |-> 0]
    /\ last = [op |-> "none", key |-> 0, resp |-> NoResp]

\* faulty variant: signup without the duplicate check
SignupFind_nocheck(p, email, password, name) ==
    /\ Idle(p)
    /\ Len(users) + Inserting("signup_insert") < MaxUsers
    /\ Goto(p, [op |-> "signup", email |-> email, password |-> password,
                name |-> name], 0, "signup_insert")
    /\ UNCHANGED <<users, tokens, now, posts, stamped>>

\* ---- POST /auth/signup ----
SignupFind(p, email, password, name) ==
    LET c == [op |-> "signup", email |-> email, password |-> password, name |-> name]
    IN  /\ Idle(p)
        /\ IF find_one_user(users, email) # 0
           THEN Return(p, c, HTTPException(400, "Email already registered"))
           ELSE /\ Len(users) + Inserting("signup_insert") < MaxUsers
                /\ Goto(p, c, 0, "signup_insert")
        /\ UNCHANGED <<users, tokens, now, posts, stamped>>

SignupInsert(p) ==
    /\ pc[p] = "signup_insert"
    /\ users' = Append(users, [email |-> call[p].email,
                               name |-> call[p].name,
                               hashed_password |-> hash_password(call[p].password),
                               created_at |-> Stamp,
                               updated_at |-> Stamp])
    /\ Return(p, call[p], Ok([ok |-> TRUE, message |-> "Account created. You can now log in."]))
    /\ UNCHANGED <<tokens, now, posts, stamped>>

\* ---- POST /auth/login ----
Login(p, email, password) ==
    LET c == [op |-> "login", email |-> email, password |-> password]
        u == find_one_user(users, email)
    IN  /\ Idle(p)
        /\ IF u = 0 \/ users[u].hashed_password # hash_password(password)
           THEN Return(p, c, HTTPException(401, "Invalid credentials"))
           ELSE Return(p, c, Ok([ok |-> TRUE,
                                 token |-> <<"sha256", email, now>>,
                                 user |-> [email |-> users[u].email,
                                           name |-> users[u].name]]))
        /\ UNCHANGED <<users, tokens, now, posts, stamped>>

\* ---- POST /auth/forgot ----
\* faulty variant: the token is issued without looking the user up
ForgotFind_nolookup(p, email) ==
    /\ Idle(p)
    /\ Len(tokens) + Inserting("forgot_insert") < MaxTokens
    /\ Goto(p, [op |-> "forgot", email |-> email], 0, "forgot_insert")
    /\ UNCHANGED <<users, tokens, now, posts, stamped>>

ForgotFind(p, email) ==
    LET c == [op |-> "forgot", email |-> email]
    IN  /\ Idle(p)
        /\ IF find_one_user(users, email) = 0
           THEN Return(p, c, Ok([ok |-> TRUE,
                                 message |-> "If that email exists, a reset link was sent."]))
           ELSE /\ Len(tokens) + Inserting("forgot_insert") < MaxTokens
                /\ Goto(p, c, 0, "forgot_insert")
        /\ UNCHANGED <<users, tokens, now, posts, stamped>>

ForgotInsert(p) ==
    /\ pc[p] = "forgot_insert"
    /\ LET token == uuid4(tokens)
       IN  /\ tokens' = Append(tokens, [user_email |-> call[p].email,
                                        token |-> token,
                                        expires_at |-> now + TOKEN_TTL,
                                        used |-> FALSE,
                                        created_at |-> Stamp,
                                        updated_at |-> Stamp])
           /\ Return(p, call[p], Ok([ok |-> TRUE, message |-> "Reset email sent.",
                                     preview_token |-> token]))
    /\ UNCHANGED <<users, now, posts, stamped>>

\* ---- POST /auth/reset ----
\* the lookup and the expiry test that follows it (no database call between them)
ResetFind(p, token, new_password) ==
    LET c == [op |-> "reset", token |-> token, new_password |-> new_password]
        r == find_one_token(tokens, token)
    IN  /\ Idle(p)
        /\ IF r = 0
           THEN Return(p, c, HTTPException(400, "Invalid token"))
           ELSE IF is_expired(tokens[r], now)
           THEN Return(p, c, HTTPException(400, "Token expired"))
           ELSE Goto(p, c, r, "reset_update")
        /\ UNCHANGED <<users, tokens, now, posts, stamped>>

\* faulty variant: the first write marks the token as well
ResetUpdateUser_marks(p) ==
    /\ pc[p] = "reset_update"
    /\ users' = update_one_user(users, tokens[rec[p]].user_email,
                                hash_password(call[p].new_password), Stamp)
    /\ tokens' = update_one_token(tokens, rec[p], Stamp)
    /\ Goto(p, call[p], rec[p], "reset_mark")
    /\ UNCHANGED <<now, posts, stamped>>

ResetUpdateUser(p) ==
    /\ pc[p] = "reset_update"
    /\ users' = update_one_user(users, tokens[rec[p]].user_email,
                                hash_password(call[p].new_password), Stamp)
    /\ Goto(p, call[p], rec[p], "reset_mark")
    /\ UNCHANGED <<tokens, now, posts, stamped>>

\* faulty variant: the second write refuses a token marked used meanwhile
ResetMarkUsed_cas(p) ==
    /\ pc[p] = "reset_mark"
    /\ IF tokens[rec[p]].used
       THEN /\ tokens' = tokens
            /\ Return(p, call[p], HTTPException(400, "Invalid token"))
       ELSE /\ tokens' = update_one_token(tokens, rec[p], Stamp)
            /\ Return(p, call[p], Ok([ok |-> TRUE, message |-> "Password has been reset."]))
    /\ UNCHANGED <<users, now, posts, stamped>>

ResetMarkUsed(p) ==
    /\ pc[p] = "reset_mark"
    /\ tokens' = update_one_token(tokens, rec[p], Stamp)
    /\ Return(p, call[p], Ok([ok |-> TRUE, message |-> "Password has been reset."]))
    /\ UNCHANGED <<users, now, posts, stamped>>

\* The handler stops between its two writes (the worker dies, or the
\* update_one of line 144 raises): the client gets a server error and the
\* token is not marked.
ServerError == HTTPException(500, "Internal Server Error")

Crash(p) ==
    /\ pc[p] = "reset_mark"
    /\ Return(p, call[p], ServerError)
    /\ UNCHANGED <<users, tokens, now, posts, stamped>>

\* ---- POST /blog ----
\* Of the document only title and slug are kept: excerpt, content, image_url and
\* author are copied from the payload and the three stamps are the time of the
\* insert; the handler reads none of them.
BlogStart(p, title) ==
    /\ Idle(p)
    /\ Len(posts) + Inserting("blog_probe") + Inserting("blog_insert") < MaxPosts
    /\ Goto(p, [op |-> "blog", title |-> title,
                base_slug |-> base_slug_of(title),
                slug |-> base_slug_of(title), i |-> 1], 0, "blog_probe")
    /\ UNCHANGED <<users, tokens, posts, now, stamped>>

\* faulty variant: after one collision the slug is not looked up again
BlogProbe_once(p) ==
    /\ pc[p] = "blog_probe"
    /\ LET c == call[p]
       IN  IF find_one_post(posts, c.slug) # 0
           THEN Goto(p, [c EXCEPT !.i = c.i + 1,
                                  !.slug = Suffixed(c.base_slug, c.i + 1)],
                     0, "blog_insert")
           ELSE Goto(p, c, 0, "blog_insert")
    /\ UNCHANGED <<users, tokens, posts, now, stamped>>

\* one evaluation of the condition of the while loop, and its body
BlogProbe(p) ==
    /\ pc[p] = "blog_probe"
    /\ LET c == call[p]
       IN  IF find_one_post(posts, c.slug) # 0
           THEN Goto(p, [c EXCEPT !.i = c.i + 1,
                                  !.slug = Suffixed(c.base_slug, c.i + 1)],
                     0, "blog_probe")
           ELSE Goto(p, c, 0, "blog_insert")
    /\ UNCHANGED <<users, tokens, posts, now, stamped>>

BlogInsert(p) ==
    /\ pc[p] = "blog_insert"
    /\ posts' = Append(posts, [title |-> call[p].title, slug |-> call[p].slug])
    /\ Return(p, call[p], Ok([ok |-> TRUE, slug |-> call[p].slug]))
    /\ UNCHANGED <<users, tokens, now, stamped>>

\* ---- the clock (datetime.utcnow) ----
\* Without the stamps the hours are counted from the first token's issue: the
\* time is then compared with nothing but a token's expires_at, so the clock's
\* origin is free.
Tick ==
    /\ now < MaxTime
    /\ stamped \/ tokens # <<>>
    /\ now' = now + 1
    /\ UNCHANGED <<users, tokens, pc, call, rec, last, posts, stamped>>

\* one database call of a request of worker p; E is the emails requests are about
Step(p, E) ==
    \/ \E e \in E, s \in SignupPayloads : SignupFind(p, e, s.password, s.name)
    \/ SignupInsert(p)
    \/ \E e \in E, pw \in Passwords : Login(p, e, pw)
    \/ \E e \in E : ForgotFind(p, e)
    \/ ForgotInsert(p)
    \/ \E t \in TokenStrings, pw \in Passwords : ResetFind(p, t, pw)
    \/ ResetUpdateUser(p)
    \/ ResetMarkUsed(p)

\* Two workers serve requests concurrently; the requests are about one account.
OneAccount == {"a@x.com"}

Next == (\E p \in Procs : Step(p, OneAccount)) \/ Tick

Spec == Init /\ [][Next]_vars

\* One request at a time, about two accounts: a single worker.
NextSeq == Step("w1", Emails) \/ Tick

SpecSeq == Init /\ [][NextSeq]_vars

\* One request at a time about one account, and a handler of confirm_reset
\* may stop between its two writes.
NextCrash == Step("w1", OneAccount) \/ Crash("w1") \/ Tick

SpecCrash == Init /\ [][NextCrash]_vars

\* One request at a time about one account, with the created_at / updated_at
\* stamps of the documents kept.
InitStamped ==
    /\ users = <<>>
    /\ tokens = <<>>
    /\ posts = <<>>
    /\ now = 0
    /\ stamped = TRUE
    /\ pc = [p \in Procs |-> "idle"]
    /\ call = [p \in Procs |-> NoCall]
    /\ rec = [p \in Procs |-> 0]
    /\ last = [op |-> "none", key |-> 0, resp |-> NoResp]

NextStamped == Step("w1", OneAccount) \/ Tick

SpecStamped == InitStamped /\ [][NextStamped]_vars

\* create_blog_post calls that do not interleave: a single worker.  A request
\* that has started is served to its end.
NextBlog ==
    \/ \E title \in Titles : BlogStart("w1", title)
    \/ BlogProbe("w1")
    \/ BlogInsert("w1")

SpecBlog == Init /\ [][NextBlog]_vars /\ WF_vars(BlogProbe("w1") \/ BlogInsert("w1"))

\* ---- vocabulary of the properties ----
TokenIds == 1..Len(tokens)
Registered(e) == \E i \in 1..Len(users) : users[i].email = e
InvalidToken == HTTPException(400, "Invalid token")
TokenExpired == HTTPException(400, "Token expired")
DuplicateEmail == HTTPException(400, "Email already registered")
InvalidCredentials == HTTPException(401, "Invalid credentials")
ResetDone == Ok([ok |-> TRUE, message |-> "Password has been reset."])

\* The first step of a request, named with what it always does put first: it
\* either answers at once (Return) or goes on to its next database call (Goto).
\* Each is equivalent to the action it names.
Presents(p, t, pw) ==
    /\ Idle(p)
    /\ pc'[p] = "reset_update" \/ (last'.op = "reset" /\ last'.key = t)
    /\ ResetFind(p, t, pw)

SignsUp(p, e, s) ==
    /\ Idle(p)
    /\ pc'[p] = "signup_insert" \/ (last'.op = "signup" /\ last'.key = e)
    /\ SignupFind(p, e, s.password, s.name)

LogsIn(p, e, pw) ==
    /\ Idle(p)
    /\ last'.op = "login" /\ last'.key = e
    /\ Login(p, e, pw)

AsksReset(p, e) ==
    /\ Idle(p)
    /\ pc'[p] = "forgot_insert" \/ (last'.op = "forgot" /\ last'.key = e)
    /\ ForgotFind(p, e)

\* ---- C1 ----
\* C1: with one request at a time, a stored unused token presented before its
\* expiry is accepted; the request that redeems it returns ok, flips used from
\* false to true and leaves the token's user with hash(new_password); used never
\* goes back to false, and a request presenting a token whose record is used is
\* answered 400 "Invalid token" and changes no password.  Each ok flips used
\* false -> true and used never reverts, so a token is redeemed at most once.
C1_RedeemsExactlyOnce ==
    [][\A p \in Procs :
        /\ \A t \in TokenStrings, pw \in Passwords :
              Presents(p, t, pw) =>
                /\ (\E i \in TokenIds : /\ tokens[i].token = t
                                        /\ ~tokens[i].used
                                        /\ now < tokens[i].expires_at)
                      => /\ pc'[p] = "reset_update"
                         /\ tokens[rec'[p]].token = t
                /\ (\E i \in TokenIds : tokens[i].token = t /\ tokens[i].used)
                      => /\ last'.resp = InvalidToken
                         /\ pc'[p] = "idle"
                         /\ users' = users
        /\ ResetMarkUsed(p) =>
              LET e == tokens[rec[p]].user_email
              IN  /\ last'.resp = ResetDone
                  /\ ~tokens[rec[p]].used
                  /\ tokens'[rec[p]].used
                  /\ Registered(e)
                  /\ users'[find_one_user(users', e)].hashed_password
                        = hash_password(call[p].new_password)
        /\ \A i \in TokenIds : tokens[i].used => tokens'[i].used
      ]_vars

\* C1 witness: a token has been redeemed and a later request presenting it has
\* just been answered 400 "Invalid token".
C1_Witness ==
    /\ last.op = "reset"
    /\ last.resp = InvalidToken
    /\ \E i \in TokenIds : tokens[i].token = last.key /\ tokens[i].used

\* ---- C2 ----
\* C2: every request that passes the lookup and the expiry test, and so goes on
\* to change a password, presented a token whose record is then unused and
\* strictly before its expiry (now < expires_at); at now = expires_at the token
\* is not redeemable.
C2_RedeemableOnlyBeforeExpiry ==
    [][\A p \in Procs :
        (pc[p] = "idle" /\ pc'[p] = "reset_update") =>
            /\ ~tokens[rec'[p]].used
            /\ now < tokens[rec'[p]].expires_at
      ]_vars

C4_EmailUnique ==
    \A i, j \in 1..Len(users) : users[i].email = users[j].email => i = j

\* ---- C5 ----
\* C5: a signup for an email that already has a User record is answered 400
\* "Email already registered" and leaves the user store as it was: nothing is
\* inserted and the stored hashed_password and name are not overwritten.
C5_DuplicateSignupRejected ==
    [][\A p \in Procs, e \in Emails, s \in SignupPayloads :
        (SignsUp(p, e, s) /\ Registered(e))
        => /\ last'.resp = DuplicateEmail
           /\ pc'[p] = "idle"
           /\ Len(users') = Len(users)
           /\ \A i \in 1..Len(users) :
                 /\ users'[i].email = users[i].email
                 /\ users'[i].hashed_password = users[i].hashed_password
                 /\ users'[i].name = users[i].name
      ]_vars

\* C5 witness: a signup has just been rejected as a duplicate and the record
\* stored for its email still has a password and a name a signup gave it.
C5_Witness ==
    /\ last.op = "signup"
    /\ last.resp = DuplicateEmail
    /\ \E s \in SignupPayloads :
          LET u == find_one_user(users, last.key)
          IN  /\ u # 0
              /\ users[u].hashed_password = hash_password(s.password)
              /\ users[u].name = s.name

\* ---- C6 ----
\* C6: a login is answered ok exactly when some User record has the email and
\* hash(password) as its hashed_password, and every other login is answered
\* with the one response 401 "Invalid credentials".
C6_LoginIffCredentialsMatch ==
    [][\A p \in Procs, e \in Emails, pw \in Passwords :
        LogsIn(p, e, pw) =>
          /\ (last'.resp.status = 200) <=>
                (\E i \in 1..Len(users) :
                    /\ users[i].email = e
                    /\ users[i].hashed_password = hash_password(pw))
          /\ last'.resp.status # 200 => last'.resp = InvalidCredentials
      ]_vars

\* ---- C7 ----
\* C7: every answer to a forgot-password request has status 200, ok = true and
\* the same fields whether or not the email is registered.
C7_ForgotIndistinguishable ==
    last.op = "forgot" =>
        /\ last.resp.status = 200
        /\ last.resp.body.ok = TRUE
        /\ DOMAIN last.resp.body = {"ok", "message"}

\* ---- C8 ----
\* the password whose digest the record found for e stores
Current(us, e) ==
    CHOOSE pw \in Passwords :
        us[find_one_user(us, e)].hashed_password = hash_password(pw)

\* C8: with one request at a time an email has at most one record; a
\* successful signup makes its password the current one of its email, a
\* confirmed reset makes new_password the current one of the token's email and
\* goes on to answer ok, no other step changes a current password, and a login
\* is answered ok exactly when its email is registered and its password is the
\* current one, 401 otherwise.
C8_LoginMatchesLatestPassword ==
    [][/\ C4_EmailUnique
       /\ \A p \in Procs :
            /\ SignupInsert(p) =>
                  /\ last'.resp.status = 200
                  /\ Current(users', call[p].email) = call[p].password
                  /\ \A e \in Emails \ {call[p].email} :
                        Registered(e) => Current(users', e) = Current(users, e)
            /\ ResetUpdateUser(p) =>
                  LET e == tokens[rec[p]].user_email
                  IN  /\ Current(users', e) = call[p].new_password
                      /\ pc'[p] = "reset_mark"
                      /\ \A f \in Emails \ {e} :
                            Registered(f) => Current(users', f) = Current(users, f)
            /\ ResetMarkUsed(p) => last'.resp = ResetDone
            /\ \A e \in Emails, pw \in Passwords :
                  LogsIn(p, e, pw) =>
                     IF Registered(e) /\ Current(users, e) = pw
                     THEN last'.resp.status = 200
                     ELSE last'.resp = InvalidCredentials
       /\ (\A p \in Procs : ~SignupInsert(p) /\ ~ResetUpdateUser(p))
             => users' = users
      ]_vars

\* C8 witness: after a reset was confirmed for an email, a login with that
\* email has just been answered ok.
C8_Witness ==
    /\ last.op = "login"
    /\ last.resp.status = 200
    /\ \E i \in TokenIds : tokens[i].used /\ tokens[i].user_email = last.key

\* ---- C9 ----
\* C9: a request presenting a token string that no stored record has, or that
\* only used records have, is answered 400 "Invalid token" and changes neither
\* the user store nor the token store.
C9_UnknownOrUsedTokenRejected ==
    [][\A p \in Procs, t \in TokenStrings, pw \in Passwords :
        (/\ Presents(p, t, pw)
         /\ \A i \in TokenIds : tokens[i].token = t => tokens[i].used)
        => /\ last'.resp = InvalidToken
           /\ pc'[p] = "idle"
           /\ users' = users
           /\ tokens' = tokens
      ]_vars

\* C9 witness: a request presenting a token string that no stored record has
\* has just been answered 400 "Invalid token", with tokens in the store.
C9_Witness ==
    /\ last.op = "reset"
    /\ last.resp = InvalidToken
    /\ tokens # <<>>
    /\ \A i \in TokenIds : tokens[i].token # last.key

\* ---- C10 ----
\* C10: a request that has passed the lookup is never stopped: its password
\* write lands and its second write answers ok, also when another request has
\* meanwhile marked the same token used; so two requests that both pass the
\* lookup of one token both overwrite the password and both return ok.
C10_NothingPreventsDuplicateRedemption ==
    [][\A p \in Procs :
        /\ (pc[p] = "reset_update" /\ pc'[p] # pc[p]) =>
              LET e == tokens[rec[p]].user_email
              IN  /\ pc'[p] = "reset_mark"
                  /\ users'[find_one_user(users', e)].hashed_password
                        = hash_password(call[p].new_password)
        /\ (pc[p] = "reset_mark" /\ pc'[p] # pc[p]) =>
              /\ last'.resp = ResetDone
              /\ tokens'[rec[p]].used
      ]_vars

\* C10 witness: two requests with different new passwords have both passed the
\* lookup of the same token and both written the password; the store holds
\* the later writer's, and both go on to answer ok.
C10_Witness ==
    \E p, q \in Procs :
        /\ p # q
        /\ pc[p] = "reset_mark" /\ pc[q] = "reset_mark"
        /\ rec[p] = rec[q]
        /\ call[p].new_password # call[q].new_password
        /\ users[find_one_user(users, tokens[rec[q]].user_email)].hashed_password
              = hash_password(call[q].new_password)

\* ---- C11 ----
\* C11: confirm_reset writes the user's password first and the token's used
\* flag second: the first write leaves the tokens alone and the second leaves
\* the users alone.  When the handler stops between the two, the user already
\* has hash(new_password) and the token is still unused; as long as that token
\* stays unused and has not expired, a request presenting it is accepted again.
C11_StopBetweenWritesLeavesTokenRedeemable ==
    [][\A p \in Procs :
        /\ ResetUpdateUser(p) =>
              /\ tokens' = tokens
              /\ pc'[p] = "reset_mark"
              /\ Current(users', tokens[rec[p]].user_email) = call[p].new_password
        /\ ResetMarkUsed(p) => users' = users /\ tokens'[rec[p]].used
        /\ (pc[p] = "reset_mark" /\ last'.resp = ServerError /\ Crash(p)) =>
              /\ Current(users', tokens[rec[p]].user_email) = call[p].new_password
              /\ ~tokens'[rec[p]].used
              /\ last'.key = tokens[rec[p]].token
        /\ (last.op = "reset" /\ last.resp = ServerError) =>
              \A pw \in Passwords :
                 Presents(p, last.key, pw) =>
                    \A i \in TokenIds :
                       (/\ tokens[i].token = last.key
                        /\ ~tokens[i].used
                        /\ ~is_expired(tokens[i], now))
                          => pc'[p] = "reset_update" /\ rec'[p] = i
      ]_vars

\* C11 witness: a handler stopped between its writes on a token, the user has
\* the password of that request, and a second request presenting the same,
\* still unused, token has passed the lookup and the expiry test.
C11_Witness ==
    /\ last.op = "reset"
    /\ last.resp = ServerError
    /\ \E p \in Procs :
          /\ pc[p] = "reset_update"
          /\ tokens[rec[p]].token = last.key
          /\ ~tokens[rec[p]].used
          /\ Current(users, tokens[rec[p]].user_email) # call[p].new_password

\* ---- C12 ----
\* C12: token records are never deleted; a record's user_email, token and
\* expires_at never change; used never goes from true back to false; a record
\* changes only when a request that redeems it returns ok, and the change is
\* used going from false to true; and a request presenting a token that has been
\* redeemed, or has expired (now >= expires_at), is refused and changes
\* nothing, so neither state is ever left.
C12_RedeemedAndExpiredAreTerminal ==
    [][/\ Len(tokens') >= Len(tokens)
       /\ \A i \in TokenIds :
            /\ tokens'[i].user_email = tokens[i].user_email
            /\ tokens'[i].token = tokens[i].token
            /\ tokens'[i].expires_at = tokens[i].expires_at
            /\ tokens[i].used => tokens'[i].used
            /\ tokens'[i] # tokens[i] =>
                  /\ ~tokens[i].used
                  /\ tokens'[i].used
                  /\ last'.op = "reset"
                  /\ last'.key = tokens[i].token
                  /\ last'.resp = ResetDone
            /\ (tokens[i].used \/ now >= tokens[i].expires_at) =>
                  \A p \in Procs, pw \in Passwords :
                     Presents(p, tokens[i].token, pw) =>
                        /\ pc'[p] = "idle"
                        /\ last'.resp \in {InvalidToken, TokenExpired}
                        /\ users' = users
                        /\ tokens' = tokens
      ]_vars

\* ---- C13 ----
\* C13: a user may hold several tokens, and redeeming one leaves every other
\* token record as it was: the password write changes no token and the second
\* write changes only the record the request looked up.  With one request at a
\* time, after a redemption returned ok another token of the same user that is
\* still unused and unexpired is accepted when presented, and the request that
\* redeems it returns ok and leaves the user with its own new_password.
C13_RedeemingOneTokenLeavesTheOthers ==
    [][\A p \in Procs :
        /\ ResetUpdateUser(p) => tokens' = tokens
        /\ ResetMarkUsed(p) =>
              /\ Len(tokens') = Len(tokens)
              /\ \A j \in TokenIds \ {rec[p]} : tokens'[j] = tokens[j]
              /\ last'.resp = ResetDone
              /\ Current(users', tokens[rec[p]].user_email) = call[p].new_password
        /\ (last.op = "reset" /\ last.resp = ResetDone) =>
              \A i, j \in TokenIds :
                 (/\ i # j
                  /\ tokens[i].token = last.key
                  /\ tokens[j].user_email = tokens[i].user_email
                  /\ ~tokens[j].used
                  /\ ~is_expired(tokens[j], now))
                 => \A pw \in Passwords :
                       Presents(p, tokens[j].token, pw) =>
                          pc'[p] = "reset_update" /\ rec'[p] = j
      ]_vars

\* C13 witness: two tokens of one user are both redeemed, and the one issued
\* earlier was redeemed last, by the request that has just returned ok.
C13_Witness ==
    /\ last.op = "reset"
    /\ last.resp = ResetDone
    /\ \E i, j \in TokenIds :
          /\ j < i
          /\ tokens[j].token = last.key
          /\ tokens[i].user_email = tokens[j].user_email
          /\ tokens[i].used
          /\ tokens[j].used

\* ---- C14 ----
\* C14: user records are never deleted and their email, name and created_at
\* never change; a record is added only by the insert of a signup, which
\* returns ok; a record changes only in the password write of a confirm_reset
\* that passed the lookup and the expiry test, and then only in hashed_password
\* and updated_at; that request returns ok.  login, request_reset, a refused
\* signup and a refused confirm_reset leave the user store as it was.
C14_UsersChangeOnlyBySignupAndReset ==
    [][/\ Len(users') >= Len(users)
       /\ \A i \in 1..Len(users) :
            /\ users'[i].email = users[i].email
            /\ users'[i].name = users[i].name
            /\ users'[i].created_at = users[i].created_at
            /\ users'[i] # users[i] =>
                  \E p \in Procs :
                     /\ pc[p] = "reset_update"
                     /\ pc'[p] = "reset_mark"
                     /\ users[i].email = tokens[rec[p]].user_email
                     /\ users'[i] = [users[i] EXCEPT
                                       !.hashed_password = hash_password(call[p].new_password),
                                       !.updated_at = now]
       /\ Len(users') > Len(users) =>
             /\ \E p \in Procs : pc[p] = "signup_insert"
             /\ Len(users') = Len(users) + 1
             /\ last'.op = "signup"
             /\ last'.resp.status = 200
             /\ users'[Len(users')].email = last'.key
             /\ users'[Len(users')].created_at = now
             /\ users'[Len(users')].updated_at = now
       /\ \A p \in Procs :
            /\ ResetMarkUsed(p) => last'.resp = ResetDone /\ users' = users
            /\ ForgotInsert(p) => users' = users
            /\ \A e \in Emails :
                  /\ AsksReset(p, e) => users' = users
                  /\ \A pw \in Passwords : LogsIn(p, e, pw) => users' = users
                  /\ \A s \in SignupPayloads :
                        (SignsUp(p, e, s) /\ pc'[p] = "idle") => users' = users
            /\ \A t \in TokenStrings, pw \in Passwords :
                  (Presents(p, t, pw) /\ pc'[p] = "idle") => users' = users
      ]_vars

\* C14 witness: a confirm_reset has just returned ok and the user of its token
\* has an updated_at later than its created_at.
C14_Witness ==
    /\ last.op = "reset"
    /\ last.resp = ResetDone
    /\ \E i \in 1..Len(users), j \in TokenIds :
          /\ tokens[j].token = last.key
          /\ users[i].email = tokens[j].user_email
          /\ users[i].created_at < users[i].updated_at

\* ---- C15 ----
\* C15: a request_reset for an email that has a user record inserts exactly
\* one token record and leaves the stored ones as they were; the new record has
\* that email as user_email, used false, expires_at one hour after the time of
\* the insert and a token string no stored record has, and the response carries
\* that token string as preview_token.  A request_reset for an email without a
\* user record returns without inserting.  Nothing else adds a token record.
C15_ForgotInsertsOneFreshToken ==
    [][\A p \in Procs :
        /\ ForgotInsert(p) =>
              LET r == tokens'[Len(tokens')]
              IN  /\ Registered(call[p].email)
                  /\ Len(tokens') = Len(tokens) + 1
                  /\ \A i \in TokenIds : tokens'[i] = tokens[i]
                  /\ r.user_email = call[p].email
                  /\ r.used = FALSE
                  /\ r.expires_at = now + TOKEN_TTL
                  /\ \A i \in TokenIds : tokens[i].token # r.token
                  /\ last'.op = "forgot"
                  /\ last'.key = call[p].email
                  /\ last'.resp.status = 200
                  /\ last'.resp.body.preview_token = r.token
        /\ \A e \in Emails :
              AsksReset(p, e) =>
                 /\ tokens' = tokens
                 /\ Registered(e) => pc'[p] = "forgot_insert" /\ call'[p].email = e
                 /\ ~Registered(e) =>
                       /\ pc'[p] = "idle"
                       /\ last'.op = "forgot"
                       /\ last'.key = e
                       /\ last'.resp.status = 200
        /\ Len(tokens') # Len(tokens) => \E q \in Procs : pc[q] = "forgot_insert"
      ]_vars

\* C15 witness: a request_reset has just returned the token string of the
\* record it inserted, the second record of its email.
C15_Witness ==
    /\ last.op = "forgot"
    /\ "preview_token" \in DOMAIN last.resp.body
    /\ Len(tokens) >= 2
    /\ tokens[Len(tokens)].token = last.resp.body.preview_token
    /\ tokens[Len(tokens)].user_email = last.key
    /\ \E i \in 1..(Len(tokens) - 1) : tokens[i].user_email = last.key

\* ---- C17 ----
\* C17: the password write of a confirm_reset whose token was issued for email
\* e leaves every user record with another email as it was and gives the user
\* with email e hash(new_password); the rest of the request, which returns ok,
\* changes no user.  So a token changes the password of its own account only.
C17_ResetChangesOnlyTheTokensUser ==
    [][\A p \in Procs :
        /\ ResetUpdateUser(p) =>
              LET e == tokens[rec[p]].user_email
              IN  /\ Len(users') = Len(users)
                  /\ \A i \in 1..Len(users) :
                        users[i].email # e => users'[i] = users[i]
                  /\ \A i \in 1..Len(users) :
                        users'[i] # users[i] =>
                           /\ users[i].email = e
                           /\ users'[i].hashed_password
                                 = hash_password(call[p].new_password)
        /\ ResetMarkUsed(p) => users' = users /\ last'.resp = ResetDone
      ]_vars

\* C17 witness: two accounts exist and a confirm_reset has just written its
\* new_password to the account of its token, while the other account has a
\* different password.
C17_Witness ==
    \E p \in Procs, i, j \in 1..Len(users) :
        /\ pc[p] = "reset_mark"
        /\ users[i].email = tokens[rec[p]].user_email
        /\ users[j].email # users[i].email
        /\ users[i].hashed_password = hash_password(call[p].new_password)
        /\ users[j].hashed_password # hash_password(call[p].new_password)

\* ---- C18 ----
\* C18: in every reachable state the user_email of each stored token is the
\* email of a stored user, as is the email of a request_reset about to insert;
\* so the password write of a confirm_reset always matches a user record, and
\* the token of a request that returned ok belongs to a stored user.
C18_TokensReferToExistingUsers ==
    /\ \A i \in TokenIds : Registered(tokens[i].user_email)
    /\ \A p \in Procs :
          /\ pc[p] = "forgot_insert" => Registered(call[p].email)
          /\ pc[p] \in {"reset_update", "reset_mark"} =>
                /\ rec[p] \in TokenIds
                /\ find_one_user(users, tokens[rec[p]].user_email) # 0
    /\ (last.op = "reset" /\ last.resp = ResetDone) =>
          \E i \in TokenIds : /\ tokens[i].token = last.key
                              /\ tokens[i].used
                              /\ Registered(tokens[i].user_email)

\* C18 witness: a confirm_reset has returned ok for a token whose user is
\* stored, while a request_reset for the same email is about to insert.
C18_Witness ==
    /\ last.op = "reset"
    /\ last.resp = ResetDone
    /\ \E i \in TokenIds, p \in Procs :
          /\ tokens[i].token = last.key
          /\ Registered(tokens[i].user_email)
          /\ pc[p] = "forgot_insert"
          /\ call[p].email = tokens[i].user_email

\* ---- C19 ----
\* the slug the description gives a new post: the base slug if no post has it,
\* otherwise base-k for the smallest k >= 2 such that no post has base-k
Taken(ps, slug) == \E i \in 1..Len(ps) : ps[i].slug = slug
ExpectedSlug(ps, base) ==
    IF ~Taken(ps, base) THEN base
    ELSE Suffixed(base, Min({k \in 2..(Len(ps) + 2) : ~Taken(ps, Suffixed(base, k))}))

\* C19: with create_blog_post calls that do not interleave, no two stored
\* posts ever share a slug; a post is stored only by the insert of a call, which
\* stores the title with the base slug of the title if no post has it and
\* otherwise base-k for the smallest k >= 2 no post has, and answers ok with the
\* slug it stored; and every call that has started returns.
C19_SlugsUniqueAndSmallestFree ==
    /\ [](\A i, j \in 1..Len(posts) : i # j => posts[i].slug # posts[j].slug)
    /\ [][/\ posts' # posts => \E p \in Procs : pc[p] = "blog_insert"
          /\ \A p \in Procs :
                BlogInsert(p) =>
                   LET slug == ExpectedSlug(posts, base_slug_of(call[p].title))
                   IN  /\ posts' = Append(posts, [title |-> call[p].title,
                                                  slug |-> slug])
                       /\ last'.op = "blog"
                       /\ last'.resp = Ok([ok |-> TRUE, slug |-> slug])
         ]_vars
    /\ \A p \in Procs : (pc[p] = "blog_probe") ~> (pc[p] = "idle")

\* C19 witness: the third post, whose title is longer than SLUG_MAX, has just
\* been stored under base-3, its base slug and base-2 being taken, and the call
\* returned that slug.
C19_Witness ==
    /\ last.op = "blog"
    /\ Len(posts) = 3
    /\ Len(posts[3].title) > SLUG_MAX
    /\ Len(base_slug_of(posts[3].title)) = SLUG_MAX
    /\ posts[3].slug = Suffixed(base_slug_of(posts[3].title), 3)
    /\ last.resp.body.slug = posts[3].slug
    /\ Taken(posts, base_slug_of(posts[3].title))
    /\ Taken(posts, Suffixed(base_slug_of(posts[3].title), 2))

====
